---- MODULE Spec2Model ----
(***************************************************************************)
(* Model of the Future list combinators of lib/future.ts: seq, seqSafe,    *)
(* all, allSafe, the extract trigger, and the derivations laid over them;  *)
(* and of chains of derivations over one root Future, entered through      *)
(* extract, await or awaitOrElse, with user functions that may throw.      *)
(*                                                                         *)
(* A Future is a closure (its action).  extract(success, error) runs the   *)
(* action with two callbacks.  JavaScript runs every task and microtask to *)
(* completion, so each action of this module is one such uninterrupted     *)
(* run: a call of extract by the user, the firing of an element's timer,   *)
(* the resumption of an async function after an await, or the reaction of  *)
(* a promise.                                                              *)
(***************************************************************************)
EXTENDS Integers, Sequences, FiniteSets, TLC

\* Longest input list given to a combinator.
MaxLen == 3
\* How many times the user triggers (extracts) the same combinator Future.
MaxTriggers == 2
\* Largest concurrency limit passed to all / allSafe (0 is "no limit").
MaxLimit == 2
\* Most elements of one input list that settle later, from a timer.
MaxTimers == 2
\* Longest chain of derivations laid over one root Future.
MaxOps == 2
\* How many times the user calls extract, await or awaitOrElse on one chain.
MaxCalls == 1
\* How many times the user calls the cancel function one extract returned.
MaxCancels == 1

VARIABLES
    sc,             \* the program under test: combinator, input list, limit, derivation
    built,          \* the Future under test has been constructed
    ntrig,          \* number of extract calls made on it so far
    results,        \* all/allSafe: `results`, shared by every trigger (future.ts:158,219)
    resolvedCount,  \* all/allSafe: `resolvedCount`, shared likewise (future.ts:159,220)
    est,            \* est[t][i]: state of element i's run started by trigger t
    inv,            \* inv[t][i]: invocations of element i's action on behalf of trigger t
    canc,           \* canc[t][i]: invocations of element i's cancel function, likewise
    log,            \* log[t]: the calls made to the two callbacks of trigger t, in order
    fcalls,         \* invocations of the user's functions given to map, flatMap, match...
    spc,            \* seq/seqSafe: where trigger t's async function and its promise stand
    sidx,           \* seq/seqSafe: the loop index i of trigger t
    sres,           \* seq/seqSafe: the local `results` of trigger t
    prom,           \* seq/seqSafe: state of the promise f.await() being awaited
    pval,           \* seq/seqSafe: the value that promise settled with
    bidx,           \* limited all/allSafe: the batch trigger t is running
    bcnt,           \* limited all/allSafe: settled elements counted in that batch
    bres,           \* limited all/allSafe: the result slots of trigger t
    ord,            \* ord[t]: actions and user functions invoked for trigger t, in order
    how,            \* how[t]: the entry point of trigger t: extract, await, awaitOrElse
    ret,            \* ret[t]: what the extract call of trigger t returned to its caller
    ucanc,          \* ucanc[t]: calls the user made of the function that extract returned
    ipend,          \* chains: the derivation whose inner Future's timer is armed, or 0
    ival,           \* chains: the channel and value that inner Future settles with
    esc,            \* esc[t]: the exception in flight in, or escaped from, trigger t
    conv,           \* conv[t]: the promise of the async toOption / toResult call t
    out             \* what a synchronous call on an Option or a Result returned

vars == <<sc, built, ntrig, results, resolvedCount, est, inv, canc, log, fcalls,
          spc, sidx, sres, prom, pval, bidx, bcnt, bres, ord, how, ret, ucanc,
          ipend, ival, esc, conv, out>>

Trig == 1..MaxTriggers

(***************************************************************************)
(* The programs under test.                                                *)
(***************************************************************************)
\* Element Futures: Future.of(v, c), Future.reject(e, c), and a Future built
\* with the constructor whose action arms a timer that later succeeds
\* ("sleep") or fails ("fail") and whose cancel function clears the timer.
Ctors == {"of", "reject", "sleep", "fail"}
Kinds == {"seq", "seqSafe", "all", "allSafe"}
Wraps == {"none", "map", "mapErr", "flatMap", "flatMapErr", "swap", "match", "flatMatch"}

Timers(a) == {i \in DOMAIN a : a[i] \in {"sleep", "fail"}}
Arrays(n) == {a \in UNION {[1..k -> Ctors] : k \in 0..n} : Cardinality(Timers(a)) <= MaxTimers}

N == Len(sc.arr)
Idx == 1..N

Succeeds(i) == sc.arr[i] \in {"of", "sleep"}
Sync(i) == sc.arr[i] \in {"of", "reject"}
\* The value element i settles with: distinct for every index and channel.
okVal(i) == i
errVal(i) == 0 - i
outVal(i) == IF Succeeds(i) THEN okVal(i) ELSE errVal(i)
outCh(i) == IF Succeeds(i) THEN "ok" ELSE "err"

\* Values handed to the user's callbacks: a result list or one element's
\* failure value, with the user functions that were applied to it.
ListVal(xs) == [k |-> "list", xs |-> xs, e |-> 0, fs |-> <<>>]
ErrVal(e) == [k |-> "scalar", xs |-> <<>>, e |-> e, fs |-> <<>>]
Applied(f, v) == [v EXCEPT !.fs = Append(@, f)]
\* The value thrown by the user function or handler of derivation j, the
\* default handed to awaitOrElse, and no value at all.
Thrown(j) == [k |-> "thrown", xs |-> <<>>, e |-> j, fs |-> <<>>]
Default == [k |-> "default", xs |-> <<>>, e |-> 0, fs |-> <<>>]
Undefined == [k |-> "undefined", xs |-> <<>>, e |-> 0, fs |-> <<>>]
NoVal == [ch |-> "none", v |-> Undefined]
NoEsc == [st |-> "none", v |-> Undefined]
Null == [k |-> "null", xs |-> <<>>, e |-> 0, fs |-> <<>>]

\* Option and Result objects: the branch and the held value.
someConstructor(val) == [type |-> "some", val |-> val]
noneConstructor == [type |-> "none", val |-> Undefined]
None == noneConstructor

\* Mutant: Some wraps whatever it is given.
Some_any(val) == someConstructor(val)

\* Some(val): val === undefined || val === null ? noneConstructor() :
\* someConstructor(val).
Some(val) == IF val = Undefined \/ val = Null THEN noneConstructor ELSE someConstructor(val)

Ok(val) == [type |-> "ok", val |-> val]
Err(err) == [type |-> "err", val |-> err]

\* The promise of an async function not called yet; no call made yet.
NoConv == [st |-> "none", v |-> None]
NoOut == [st |-> "idle"]

\* Entries of ord: the action of element i, a user function of derivation j.
Act(i) == [what |-> "action", at |-> i]
Fn(what, j) == [what |-> what, at |-> j]

\* results[i] = d on a JavaScript array: the other slots keep their state,
\* a slot never written is a hole.
Store(r, i, d) == [j \in (DOMAIN r) \cup {i} |-> IF j = i THEN d ELSE r[j]]

(***************************************************************************)
(* The mutable state, gathered so that one synchronous run can thread it.  *)
(***************************************************************************)
Cur == [results |-> results, resolvedCount |-> resolvedCount, est |-> est,
        inv |-> inv, canc |-> canc, log |-> log, fcalls |-> fcalls,
        spc |-> spc, sidx |-> sidx, sres |-> sres, prom |-> prom, pval |-> pval,
        bidx |-> bidx, bcnt |-> bcnt, bres |-> bres,
        ord |-> ord, how |-> how, ret |-> ret, ucanc |-> ucanc,
        ipend |-> ipend, ival |-> ival, esc |-> esc, conv |-> conv, out |-> out]

Commit(m) ==
    /\ results' = m.results
    /\ resolvedCount' = m.resolvedCount
    /\ est' = m.est
    /\ inv' = m.inv
    /\ canc' = m.canc
    /\ log' = m.log
    /\ fcalls' = m.fcalls
    /\ spc' = m.spc
    /\ sidx' = m.sidx
    /\ sres' = m.sres
    /\ prom' = m.prom
    /\ pval' = m.pval
    /\ bidx' = m.bidx
    /\ bcnt' = m.bcnt
    /\ bres' = m.bres
    /\ ord' = m.ord
    /\ how' = m.how
    /\ ret' = m.ret
    /\ ucanc' = m.ucanc
    /\ ipend' = m.ipend
    /\ ival' = m.ival
    /\ esc' = m.esc
    /\ conv' = m.conv
    /\ out' = m.out

(***************************************************************************)
(* The callbacks the user passed to extract, and the derivations.          *)
(***************************************************************************)
success(m, t, v) == [m EXCEPT !.log[t] = Append(@, [ch |-> "ok", v |-> v])]
error(m, t, v) == [m EXCEPT !.log[t] = Append(@, [ch |-> "err", v |-> v])]

\* The user function f of a derivation is applied: one invocation.
call(m) == [m EXCEPT !.fcalls = @ + 1]

\* flatMap(f) with f = x => Future.reject(g(x)): success goes through f,
\* failure passes.
flatMap_success(m, t, v) == error(call(m), t, Applied("g", v))
flatMap_error(m, t, e) == error(m, t, e)
\* map(f) = flatMap(x => Future.of(f(x))).
map_success(m, t, v) == success(call(m), t, Applied("f", v))
map_error(m, t, e) == error(m, t, e)
\* flatMapErr(f) with f = e => Future.of(g(e)): failure goes through f.
flatMapErr_success(m, t, v) == success(m, t, v)
flatMapErr_error(m, t, e) == success(call(m), t, Applied("g", e))
\* mapErr(f) = flatMapErr(x => Future.reject(f(x))).
mapErr_success(m, t, v) == success(m, t, v)
mapErr_error(m, t, e) == error(call(m), t, Applied("f", e))
\* swap(): this.extract(reject, resolve).
swap_success(m, t, v) == error(m, t, v)
swap_error(m, t, e) == success(m, t, e)
\* flatMatch with onSuccess = x => Future.of(s(x)), onFailure = e =>
\* Future.reject(h(e)): the returned Future is extracted as it is.
flatMatch_success(m, t, v) == success(call(m), t, Applied("s", v))
flatMatch_error(m, t, e) == error(call(m), t, Applied("h", e))
\* match = flatMatch with both handlers wrapped in Future.of.
match_success(m, t, v) == success(call(m), t, Applied("s", v))
match_error(m, t, e) == success(call(m), t, Applied("h", e))

\* resolve and reject as the combinator's action receives them: the user's
\* callbacks, or those of the derivation laid over the combinator.
resolve(m, t, v) ==
    CASE sc.wrap = "none" -> success(m, t, v)
      [] sc.wrap = "map" -> map_success(m, t, v)
      [] sc.wrap = "mapErr" -> mapErr_success(m, t, v)
      [] sc.wrap = "flatMap" -> flatMap_success(m, t, v)
      [] sc.wrap = "flatMapErr" -> flatMapErr_success(m, t, v)
      [] sc.wrap = "swap" -> swap_success(m, t, v)
      [] sc.wrap = "match" -> match_success(m, t, v)
      [] sc.wrap = "flatMatch" -> flatMatch_success(m, t, v)

reject(m, t, e) ==
    CASE sc.wrap = "none" -> error(m, t, e)
      [] sc.wrap = "map" -> map_error(m, t, e)
      [] sc.wrap = "mapErr" -> mapErr_error(m, t, e)
      [] sc.wrap = "flatMap" -> flatMap_error(m, t, e)
      [] sc.wrap = "flatMapErr" -> flatMapErr_error(m, t, e)
      [] sc.wrap = "swap" -> swap_error(m, t, e)
      [] sc.wrap = "match" -> match_error(m, t, e)
      [] sc.wrap = "flatMatch" -> flatMatch_error(m, t, e)

(***************************************************************************)
(* Elements, and the callbacks each combinator hands to them.              *)
(***************************************************************************)
RECURSIVE all_forEach_wait(_, _, _, _)
RECURSIVE extract(_, _, _), action(_, _, _), settle(_, _, _),
          limit_onSuccess(_, _, _, _), limit_startBatch(_, _, _),
          all_forEach(_, _, _, _), seq_cancel(_, _, _), seq_cancel_uncalled(_, _, _),
          run_step(_, _, _), run_flatMap(_, _, _)

\* The value a chain's root settles with: Future.of(null) and
\* Future.of(undefined) where the scenario says so.
root_value(i) ==
    IF "rv" \in DOMAIN sc /\ sc.rv = "null" THEN Null
    ELSE IF "rv" \in DOMAIN sc /\ sc.rv = "undefined" THEN Undefined
    ELSE ErrVal(outVal(i))

\* The value a generator returns: a function of the values it was fed.
gen_return(fed) == Applied("return", ListVal(fed))

\* new Promise(executor): the promise's resolve and reject; only the first
\* call settles it.
promise_settle(m, t, ch, v) ==
    IF m.prom[t] = "pending" THEN [m EXCEPT !.prom[t] = ch, !.pval[t] = v] ELSE m

(***************************************************************************)
(* Chains: a root Future (sc.arr[1]) under the derivations sc.ops[1..K].   *)
(* Level j is the pair of callbacks that derivation j hands to the Future  *)
(* under it; level K + 1 is the consumer's pair.  An exception in flight   *)
(* is esc[t].st = "flying": it unwinds the run until a catch takes it.     *)
(***************************************************************************)
K == Len(sc.ops)

\* The chain a call runs: where two Futures built over the same root are
\* compared, the first call is made on one and the second on the other.
\* Mutant: deriving replaces the action of f itself.
OpsOf_mutated(t) == IF sc.kind = "law" /\ t = 2 THEN sc.alt ELSE sc.ops

\* Where f is extracted beside the Future derived from it (sc.calls), a call
\* on f runs f's action under the callbacks given: each derivation is a new
\* Future whose action calls this.extract, and f's _action is never assigned.
OpsOf(t) ==
    IF sc.kind = "law" /\ t = 2 THEN sc.alt
    ELSE IF sc.kind = "parent" /\ sc.calls[t] = "f" THEN <<>>
    ELSE sc.ops

\* Functions on numbers that the user hands to map where outcomes are
\* compared: x => x + 1, x => 2 * x, x => -x, and their compositions
\* x => h(g(x)), written <<g, h>>; <<>> is x => x.
Fns == {"inc", "dbl", "neg"}
FnApply(f, v) ==
    [v EXCEPT !.e = CASE f = "inc" -> @ + 1
                      [] f = "dbl" -> 2 * @
                      [] f = "neg" -> 0 - @]

RECURSIVE Compose(_, _)
Compose(fs, v) == IF fs = <<>> THEN v ELSE Compose(Tail(fs), FnApply(Head(fs), v))

\* Mutant: the function is applied to its own result.
returned_twice(o, what, j, v) ==
    IF "fn" \in DOMAIN o THEN Compose(o.fn, Compose(o.fn, v)) ELSE Applied(Fn(what, j), v)

\* f(x): the value the user function of derivation j returns for v, or
\* wraps in the Future it returns.
returned(o, what, j, v) ==
    IF "fn" \in DOMAIN o THEN Compose(o.fn, v) ELSE Applied(Fn(what, j), v)

RECURSIVE deliver(_, _, _, _, _)

throw(m, t, x) == [m EXCEPT !.esc[t] = [st |-> "flying", v |-> x]]

\* Mutant: await rejects with the failure wrapped in an Error.
consumer_wrapped(m, t, c, v) ==
    CASE m.how[t] = "extract" -> IF c = "ok" THEN success(m, t, v) ELSE error(m, t, v)
      [] m.how[t] \in {"await", "toOption", "toResult"} ->
            promise_settle(m, t, c, IF c = "err" THEN Applied("Error", v) ELSE v)
      [] m.how[t] = "awaitOrElse" ->
            promise_settle(m, t, "ok", IF c = "ok" THEN v ELSE Default)

\* The success callback the user passed to extract: it is called, and in
\* the scenarios that say so it then throws.
ConsumerThrows == "cb" \in DOMAIN sc /\ sc.cb = "throws"
user_success(m, t, v) ==
    IF ConsumerThrows THEN throw(success(m, t, v), t, Thrown(Len(OpsOf(t)) + 1))
    ELSE success(m, t, v)

\* The callbacks handed to the outermost Future: those the user passed to
\* extract, the resolve and reject of await's promise, or the two closures
\* of awaitOrElse.  toOption and toResult go through this.await().
consumer(m, t, c, v) ==
    CASE m.how[t] = "extract" -> IF c = "ok" THEN user_success(m, t, v) ELSE error(m, t, v)
      [] m.how[t] \in {"await", "toOption", "toResult"} -> promise_settle(m, t, c, v)
      [] m.how[t] = "awaitOrElse" ->
            promise_settle(m, t, "ok", IF c = "ok" THEN v ELSE Default)

\* A user function or handler of derivation j is invoked.
invoke(m, t, what, j) == [call(m) EXCEPT !.ord[t] = Append(@, Fn(what, j))]

\* The Future a user function returned is extracted with the callbacks of
\* level j + 1: of and reject call theirs at once, a timer Future arms its
\* timer and returns.
inner_extract(m, t, j, ctor, v) ==
    CASE ctor = "of" -> deliver(m, t, j + 1, "ok", v)
      [] ctor = "reject" -> deliver(m, t, j + 1, "err", v)
      [] ctor = "sleep" -> [m EXCEPT !.ipend[t] = j, !.ival[t] = [ch |-> "ok", v |-> v]]

\* try { return f(data).extract(resolve, reject); }
\* catch (err) { return reject(err); }
\* The try covers the call of f and everything the extract runs at once.
guarded(m, t, j, what, v) ==
    LET o == OpsOf(t)[j]
        m1 == invoke(m, t, what, j)
        m2 == IF o.thr THEN throw(m1, t, Thrown(j))
              ELSE inner_extract(m1, t, j, o.inner, returned(o, what, j, v))
    IN  IF m2.esc[t].st = "flying"
        THEN deliver([m2 EXCEPT !.esc[t] = NoEsc], t, j + 1, "err", m2.esc[t].v)
        ELSE m2

\* matchObject.onSuccess(data).extract(resolve, reject): no try around it.
unguarded(m, t, j, what, v) ==
    LET o == OpsOf(t)[j]
        m1 == invoke(m, t, what, j)
    IN  IF o.thr THEN throw(m1, t, Thrown(j))
        ELSE inner_extract(m1, t, j, o.inner, returned(o, what, j, v))

\* Mutant: f is applied with no try around it.
flatMap_data_raw(m, t, j, v) == unguarded(m, t, j, "f", v)

\* flatMap(f), and map(f) = flatMap(x => Future.of(f(x))).
flatMap_data(m, t, j, v) == guarded(m, t, j, "f", v)

\* Mutant: f is applied to the failure as well.
flatMap_e_applied(m, t, j, e) == guarded(m, t, j, "f", e)

flatMap_e(m, t, j, e) == deliver(m, t, j + 1, "err", e)

\* Mutant: f is applied to the success as well.
flatMapErr_data_applied(m, t, j, v) == guarded(m, t, j, "f", v)

\* flatMapErr(f), and mapErr(f) = flatMapErr(x => Future.reject(f(x))).
flatMapErr_data(m, t, j, v) == deliver(m, t, j + 1, "ok", v)
flatMapErr_e(m, t, j, e) == guarded(m, t, j, "f", e)

\* Mutant: swap hands its callbacks on in the order it received them.
swap_extract_same(m, t, j, c, v) == deliver(m, t, j + 1, c, v)

\* swap(): this.extract(reject, resolve).
swap_extract(m, t, j, c, v) == deliver(m, t, j + 1, IF c = "ok" THEN "err" ELSE "ok", v)

\* Mutant: whatever the handler returned is wrapped in Future.of.
flatMatch_data_rewrapped(m, t, j, v) ==
    inner_extract(invoke(m, t, "onSuccess", j), t, j, "of", returned(OpsOf(t)[j], "onSuccess", j, v))

\* flatMatch and flatMatchErr; match and matchErr wrap the value each
\* handler returns in Future.of, respectively Future.reject.
flatMatch_data(m, t, j, v) == unguarded(m, t, j, "onSuccess", v)

\* Mutant: a failure is handed to onSuccess.
flatMatch_e_onSuccess(m, t, j, e) == unguarded(m, t, j, "onSuccess", e)

flatMatch_e(m, t, j, e) == unguarded(m, t, j, "onFailure", e)

\* The Future under level j settles on channel c with v: it invokes the
\* callback of that channel.
deliver(m, t, j, c, v) ==
    IF j > Len(OpsOf(t)) THEN consumer(m, t, c, v)
    ELSE LET op == OpsOf(t)[j].op
         IN  CASE op \in {"map", "flatMap"} ->
                    IF c = "ok" THEN flatMap_data(m, t, j, v) ELSE flatMap_e(m, t, j, v)
               [] op \in {"mapErr", "flatMapErr"} ->
                    IF c = "ok" THEN flatMapErr_data(m, t, j, v) ELSE flatMapErr_e(m, t, j, v)
               [] op = "swap" -> swap_extract(m, t, j, c, v)
               [] op \in {"match", "matchErr", "flatMatch", "flatMatchErr"} ->
                    IF c = "ok" THEN flatMatch_data(m, t, j, v) ELSE flatMatch_e(m, t, j, v)

\* Mutant: results.push(d) in place of results[i] = d.
all_onSuccess_push(m, t, i, d) ==
    LET m1 == [m EXCEPT !.results = Store(@, Cardinality(DOMAIN @) + 1, d),
                        !.resolvedCount = @ + 1]
    IN  IF m1.resolvedCount = N THEN resolve(m1, t, ListVal(m1.results)) ELSE m1

\* all, no limit: (d) => { results[i] = d; resolvedCount += 1; ... }
all_onSuccess(m, t, i, d) ==
    LET m1 == [m EXCEPT !.results = Store(@, i, d), !.resolvedCount = @ + 1]
    IN  IF m1.resolvedCount = N THEN resolve(m1, t, ListVal(m1.results)) ELSE m1

\* Mutant: the failure is stored and counted like a success.
all_onFailure_count(m, t, i, err) ==
    LET m1 == [m EXCEPT !.results = Store(@, i, err), !.resolvedCount = @ + 1]
    IN  IF m1.resolvedCount = N THEN resolve(m1, t, ListVal(m1.results)) ELSE m1

\* all, no limit: (err) => { reject(err); }
all_onFailure(m, t, i, err) == reject(m, t, ErrVal(err))

\* allSafe, no limit: both callbacks store and count.
allSafe_onSuccess(m, t, i, d) ==
    LET m1 == [m EXCEPT !.results = Store(@, i, d), !.resolvedCount = @ + 1]
    IN  IF m1.resolvedCount = N THEN resolve(m1, t, ListVal(m1.results)) ELSE m1

\* Mutant: the failure is passed on, as all does.
allSafe_onFailure_reject(m, t, i, err) == reject(m, t, ErrVal(err))

allSafe_onFailure(m, t, i, err) ==
    LET m1 == [m EXCEPT !.results = Store(@, i, err), !.resolvedCount = @ + 1]
    IN  IF m1.resolvedCount = N THEN resolve(m1, t, ListVal(m1.results)) ELSE m1

\* all / allSafe with limit n > 0: consecutive batches of n elements.
BatchLo(b) == (b - 1) * sc.limit + 1
BatchHi(b) == IF b * sc.limit < N THEN b * sc.limit ELSE N
BatchOf(i) == ((i - 1) \div sc.limit) + 1

\* An element of the running batch is stored in its slot; the batch is
\* drained when all its elements are, and then the next one starts.
limit_onSuccess(m, t, i, d) ==
    LET m1 == [m EXCEPT !.bres[t] = Store(@, i, d), !.bcnt[t] = @ + 1]
        b == m.bidx[t]
    IN  IF m1.bcnt[t] = BatchHi(b) - BatchLo(b) + 1
        THEN IF BatchHi(b) = N
             THEN resolve(m1, t, ListVal(m1.bres[t]))
             ELSE limit_startBatch(m1, t, b + 1)
        ELSE m1

limit_onFailure(m, t, i, err) ==
    IF sc.kind = "all" THEN reject(m, t, ErrVal(err)) ELSE limit_onSuccess(m, t, i, err)

\* The run of element i started by the combinator for trigger t settles:
\* the element invokes the callback the combinator gave it.
settle(m, t, i) ==
    LET m1 == [m EXCEPT !.est[t][i] = outCh(i)]
    IN  CASE sc.kind \in {"seq", "seqSafe"} -> promise_settle(m1, t, outCh(i), outVal(i))
          [] sc.kind \in {"all", "allSafe"} /\ sc.limit > 0 ->
                IF Succeeds(i) THEN limit_onSuccess(m1, t, i, okVal(i))
                ELSE limit_onFailure(m1, t, i, errVal(i))
          [] sc.kind = "all" /\ sc.limit = 0 ->
                IF Succeeds(i) THEN all_onSuccess(m1, t, i, okVal(i))
                ELSE all_onFailure(m1, t, i, errVal(i))
          [] sc.kind = "allSafe" /\ sc.limit = 0 ->
                IF Succeeds(i) THEN allSafe_onSuccess(m1, t, i, okVal(i))
                ELSE allSafe_onFailure(m1, t, i, errVal(i))
          [] sc.kind \in {"chain", "law", "parent"} ->
                deliver(m1, t, 1, outCh(i), root_value(i))
          [] sc.kind = "fromP" ->
                [m1 EXCEPT !.spc[t] = IF Succeeds(i) THEN "fulfilled" ELSE "rejected",
                           !.pval[t] = outVal(i)]
          [] sc.kind = "run" -> run_flatMap(m1, t, i)

(***************************************************************************)
(* Future.run(generatorFactory): the generator yields the Futures sc.arr   *)
(* in turn and then returns.  step calls next(value): on done the returned *)
(* value is wrapped in Future.of, else the yielded Future is flatMapped    *)
(* into step.  sidx[t] is the yield the generator is suspended at, sres[t] *)
(* the values it has been fed, fcalls the calls of next.                   *)
(***************************************************************************)
\* step(value) once next(value) has returned: the generator is at yield i or,
\* past the last one, done.
run_step(m, t, i) ==
    IF i > N THEN resolve(m, t, gen_return(m.sres[t]))
    ELSE extract([m EXCEPT !.sidx[t] = i], t, i)

\* Mutant: a failure is fed back to the generator like a success.
run_flatMap_resume(m, t, i) ==
    run_step([call(m) EXCEPT !.sres[t] = Append(@, outVal(i))], t, i + 1)

\* The callbacks flatMap(step) hands to the yielded Future i: success calls
\* step, which resumes the generator with the value; failure passes.
run_flatMap(m, t, i) ==
    IF Succeeds(i) THEN run_step([call(m) EXCEPT !.sres[t] = Append(@, okVal(i))], t, i + 1)
    ELSE reject(m, t, ErrVal(errVal(i)))

\* The action of element i: of and reject call their callback at once, the
\* timer Futures arm a timer and return.
action(m, t, i) ==
    IF Sync(i) THEN settle(m, t, i) ELSE [m EXCEPT !.est[t][i] = "pending"]

\* fut.extract(cb, cb): return this._action(success, error).
extract(m, t, i) ==
    action([m EXCEPT !.inv[t][i] = @ + 1, !.ord[t] = Append(@, Act(i))], t, i)

\* Mutant: the loop goes on to the next element only once this one has
\* settled.
all_forEach_wait(m, t, i, hi) ==
    IF i > hi THEN m
    ELSE LET m1 == extract(m, t, i)
         IN  IF m1.est[t][i] = "pending" THEN m1 ELSE all_forEach_wait(m1, t, i + 1, hi)

\* arr.forEach((fut, i) => fut.extract(...)) over the indices i..hi.
all_forEach(m, t, i, hi) ==
    IF i > hi THEN m ELSE all_forEach(extract(m, t, i), t, i + 1, hi)

\* Mutant: everything left is started with the batch.
limit_startBatch_rest(m, t, b) ==
    all_forEach([m EXCEPT !.bidx[t] = b, !.bcnt[t] = 0], t, BatchLo(b), N)

limit_startBatch(m, t, b) ==
    all_forEach([m EXCEPT !.bidx[t] = b, !.bcnt[t] = 0], t, BatchLo(b), BatchHi(b))

\* Mutant: no branch for the empty array.
all_action_loop(m, t) == all_forEach(m, t, 1, N)

\* The action of the Future returned by all / allSafe.
all_action(m, t) ==
    IF N = 0 THEN resolve(m, t, ListVal(<<>>)) ELSE all_forEach(m, t, 1, N)

limit_action(m, t) ==
    IF N = 0 THEN resolve(m, t, ListVal(<<>>)) ELSE limit_startBatch(m, t, 1)

(***************************************************************************)
(* seq and seqSafe: Future.fromP(async () => { for ... await f.await() }). *)
(***************************************************************************)
\* Mutant: the next element is extracted too, before the await.
seq_loop_ahead(m, t, i) ==
    IF i > N THEN [m EXCEPT !.spc[t] = "fulfilled"]
    ELSE LET m1 == extract([m EXCEPT !.sidx[t] = i, !.prom[t] = "pending",
                                     !.spc[t] = "await"], t, i)
         IN  IF i < N
             THEN [m1 EXCEPT !.inv[t][i + 1] = @ + 1, !.ord[t] = Append(@, Act(i + 1))]
             ELSE m1

\* The head of the loop for index i: f.await() extracts element i and the
\* function suspends; past the last element it returns results.
seq_loop(m, t, i) ==
    IF i > N THEN [m EXCEPT !.spc[t] = "fulfilled"]
    ELSE extract([m EXCEPT !.sidx[t] = i, !.prom[t] = "pending", !.spc[t] = "await"], t, i)

\* arr.slice(i).map(x => x.extract(() => {}, () => {})()): every element
\* from i on is extracted with callbacks that do nothing, and the cancel
\* function it returns is called at once.
\* Mutant: the cancel function that extract returns is not called.
seq_cancel_uncalled(m, t, j) ==
    IF j > N THEN m
    ELSE seq_cancel_uncalled([m EXCEPT !.inv[t][j] = @ + 1,
                                       !.ord[t] = Append(@, Act(j))], t, j + 1)

seq_cancel(m, t, j) ==
    IF j > N THEN m
    ELSE seq_cancel([m EXCEPT !.inv[t][j] = @ + 1, !.canc[t][j] = @ + 1,
                              !.ord[t] = Append(@, Act(j))], t, j + 1)

\* The function resumes after `await f.await()`.
seq_resume(m, t) ==
    LET i == m.sidx[t]
    IN  IF m.prom[t] = "ok"
        THEN seq_loop([m EXCEPT !.sres[t] = Append(@, m.pval[t])], t, i + 1)
        ELSE [seq_cancel(m, t, i) EXCEPT !.spc[t] = "rejected"]

\* Mutant: a failure is thrown on, as seq does.
seqSafe_resume_throw(m, t) == seq_resume(m, t)

seqSafe_resume(m, t) ==
    seq_loop([m EXCEPT !.sres[t] = Append(@, m.pval[t])], t, m.sidx[t] + 1)

\* fromP's action: x().then(resolve, e => reject(m(e))); return () => true.
\* The factory runs the async function up to its first await.
fromP_action(m, t) == seq_loop(m, t, 1)

\* Future.fromP(factory, m) on its own: the factory (sc.arr[1]) is called
\* and returns a promise, already settled or settled later by a timer.
fromP_factory(m, t) == extract(m, t, 1)

\* The value the promise fulfilled with: the list that seq's function
\* returned, or the value of the factory's promise.
fromP_value(m, t) ==
    IF sc.kind = "fromP" THEN ErrVal(m.pval[t]) ELSE ListVal(m.sres[t])

\* m(e): (e) => e for seq and by default, else the mapper given.
fromP_m(e) == IF sc.kind = "fromP" /\ sc.mapper # "id" THEN Applied(sc.mapper, e) ELSE e

\* Mutant: the rejection is passed on without going through m.
fromP_then_unmapped(m, t) ==
    IF m.spc[t] = "fulfilled"
    THEN resolve([m EXCEPT !.spc[t] = "done"], t, fromP_value(m, t))
    ELSE reject([m EXCEPT !.spc[t] = "done"], t, ErrVal(m.pval[t]))

\* The reaction of that then: resolve, or (e) => reject(m(e)).
fromP_then(m, t) ==
    IF m.spc[t] = "fulfilled"
    THEN resolve([m EXCEPT !.spc[t] = "done"], t, fromP_value(m, t))
    ELSE reject([m EXCEPT !.spc[t] = "done"], t, fromP_m(ErrVal(m.pval[t])))

(***************************************************************************)
(* Construction and the trigger.                                           *)
(***************************************************************************)
\* extract(success, error) on the Future under test.
Future_extract(m, t) ==
    CASE sc.kind \in {"seq", "seqSafe"} -> fromP_action(m, t)
      [] sc.kind \in {"all", "allSafe"} /\ sc.limit = 0 -> all_action(m, t)
      [] sc.kind \in {"all", "allSafe"} /\ sc.limit > 0 -> limit_action(m, t)
      [] sc.kind \in {"chain", "law", "parent"} -> extract(m, t, 1)
      [] sc.kind = "fromP" -> fromP_factory(m, t)
      [] sc.kind = "run" -> run_step(m, t, 1)

\* Mutant: the action runs while the Future is built, as when fromP is
\* handed the promise of a function already called.
construct_eager(m) == Future_extract([m EXCEPT !.results = <<>>, !.resolvedCount = 0], 1)

\* Future.seq / seqSafe / all / allSafe and the derivation over it: closures
\* are built; all and allSafe also allocate results = [] and
\* resolvedCount = 0, once.
\* Future.run calls step() as it builds the Future: the first next().
construct(m) ==
    IF sc.kind = "run" THEN call(m) ELSE [m EXCEPT !.results = <<>>, !.resolvedCount = 0]

Scenarios(wraps, n, lim) ==
    {s \in [kind : Kinds, arr : Arrays(n), limit : 0..lim, wrap : wraps] :
        s.limit > 0 => s.kind \in {"all", "allSafe"}}

\* The state before anything has been built or triggered.
Fresh ==
    /\ built = FALSE
    /\ ntrig = 0
    /\ results = <<>>
    /\ resolvedCount = 0
    /\ est = [t \in Trig |-> [i \in Idx |-> "idle"]]
    /\ inv = [t \in Trig |-> [i \in Idx |-> 0]]
    /\ canc = [t \in Trig |-> [i \in Idx |-> 0]]
    /\ log = [t \in Trig |-> <<>>]
    /\ fcalls = 0
    /\ spc = [t \in Trig |-> "idle"]
    /\ sidx = [t \in Trig |-> 0]
    /\ sres = [t \in Trig |-> <<>>]
    /\ prom = [t \in Trig |-> "none"]
    /\ pval = [t \in Trig |-> 0]
    /\ bidx = [t \in Trig |-> 0]
    /\ bcnt = [t \in Trig |-> 0]
    /\ bres = [t \in Trig |-> <<>>]
    /\ ord = [t \in Trig |-> <<>>]
    /\ how = [t \in Trig |-> "none"]
    /\ ret = [t \in Trig |-> "none"]
    /\ ucanc = [t \in Trig |-> 0]
    /\ ipend = [t \in Trig |-> 0]
    /\ ival = [t \in Trig |-> NoVal]
    /\ esc = [t \in Trig |-> NoEsc]
    /\ conv = [t \in Trig |-> NoConv]
    /\ out = NoOut

InitWith(wraps, n, lim) == sc \in Scenarios(wraps, n, lim) /\ Fresh

\* The combinators as the user extracts them directly.
Init == InitWith({"none"}, MaxLen, MaxLimit)

\* The program builds the Future under test.
Construct ==
    /\ ~built
    /\ built' = TRUE
    /\ Commit(construct(Cur))
    /\ UNCHANGED <<sc, ntrig>>

\* The user calls extract on it (again).
Trigger ==
    /\ built
    /\ ntrig < MaxTriggers
    /\ ntrig' = ntrig + 1
    /\ Commit(Future_extract(Cur, ntrig + 1))
    /\ UNCHANGED <<sc, built>>

\* An exception still in flight when a run ends has left it: thrown out of
\* the extract call to its caller, or out of a timer callback to the host.
uncaught(m, t, where) ==
    IF m.esc[t].st = "flying" THEN [m EXCEPT !.esc[t].st = where] ELSE m

\* The timer of a pending element fires.
TimerFires(t, i) ==
    /\ est[t][i] = "pending"
    /\ Commit(uncaught(settle(Cur, t, i), t, "timer"))
    /\ UNCHANGED <<sc, built, ntrig>>

\* The async function of seq / seqSafe resumes once the awaited promise
\* has settled.
Resume(t) ==
    /\ spc[t] = "await"
    /\ prom[t] \in {"ok", "err"}
    /\ Commit(IF sc.kind = "seq" THEN seq_resume(Cur, t) ELSE seqSafe_resume(Cur, t))
    /\ UNCHANGED <<sc, built, ntrig>>

\* The promise returned by the async function has settled: its reaction runs.
Then(t) ==
    /\ spc[t] \in {"fulfilled", "rejected"}
    /\ Commit(fromP_then(Cur, t))
    /\ UNCHANGED <<sc, built, ntrig>>

Next ==
    \/ Construct
    \/ Trigger
    \/ \E t \in Trig : \E i \in Idx : TimerFires(t, i)
    \/ \E t \in Trig : Resume(t)
    \/ \E t \in Trig : Then(t)

Spec == Init /\ [][Next]_vars

\* The combinators under every derivation, on shorter lists and with no limit.
InitDerived == InitWith(Wraps, MaxLen - 1, 0)
SpecDerived == InitDerived /\ [][Next]_vars

(***************************************************************************)
(* Chains of derivations over one root Future, and their entry points.     *)
(***************************************************************************)
\* What a user function returns: Future.of, Future.reject, or a Future
\* that succeeds later from a timer.
Inners == {"of", "reject", "sleep"}
Op(op, thr, inner) == [op |-> op, thr |-> thr, inner |-> inner]

\* thr: the user function throws when it is applied.
TransformOps ==
    {Op("map", b, "of") : b \in BOOLEAN} \cup {Op("mapErr", b, "reject") : b \in BOOLEAN}
    \cup {Op("swap", FALSE, "of")}
    \cup {Op(o, FALSE, g) : o \in {"flatMap", "flatMapErr"}, g \in Inners}
    \cup {Op(o, TRUE, "of") : o \in {"flatMap", "flatMapErr"}}

MatchOps ==
    {Op("match", b, "of") : b \in BOOLEAN} \cup {Op("matchErr", b, "reject") : b \in BOOLEAN}
    \cup {Op(o, FALSE, g) : o \in {"flatMatch", "flatMatchErr"}, g \in Inners}
    \cup {Op(o, TRUE, "of") : o \in {"flatMatch", "flatMatchErr"}}

ChainTimers(r, c) ==
    (IF r \in {"sleep", "fail"} THEN 1 ELSE 0)
    + Cardinality({j \in DOMAIN c : ~c[j].thr /\ c[j].inner = "sleep"})

ChainScenarios(ops, n) ==
    {[kind |-> "chain", arr |-> <<r>>, limit |-> 0, wrap |-> "none", ops |-> c] :
        <<r, c>> \in {x \in Ctors \X UNION {[1..k -> ops] : k \in 0..n} :
                        ChainTimers(x[1], x[2]) <= MaxTimers}}

\* A derivation's action is (resolve, reject) => this.extract(...): what the
\* extract of a derived Future returns is what the root's action returned.
\* Mutant: a derived Future returns a cancel function of its own.
derived_return_own(m, t) == [m EXCEPT !.ret[t] = "own"]

derived_return(m, t) == [m EXCEPT !.ret[t] = "root"]

\* The user calls extract on the chain.  If the run throws, the call
\* returns nothing.
Extract ==
    /\ built /\ sc.kind \in {"chain", "law", "parent"}
    /\ ntrig < (CASE sc.kind = "law" -> 2
                   [] sc.kind = "parent" -> MaxTriggers
                   [] OTHER -> MaxCalls)
    /\ ntrig' = ntrig + 1
    /\ LET t == ntrig + 1
           m1 == Future_extract([Cur EXCEPT !.how[t] = "extract"], t)
       IN  Commit(IF m1.esc[t].st = "flying" THEN uncaught(m1, t, "extract")
                  ELSE IF OpsOf(t) = <<>> THEN [m1 EXCEPT !.ret[t] = "root"]
                  ELSE derived_return(m1, t))
    /\ UNCHANGED <<sc, built>>

\* new Promise(executor): an exception thrown by the executor rejects the
\* promise, unless it has settled already.
executor(m, t) ==
    LET m1 == Future_extract([m EXCEPT !.prom[t] = "pending"], t)
    IN  IF m1.esc[t].st = "flying"
        THEN promise_settle([m1 EXCEPT !.esc[t] = NoEsc], t, "err", m1.esc[t].v)
        ELSE m1

\* The user calls await(): new Promise(this.extract.bind(this)).  The
\* cancel function extract returns is dropped.
Await ==
    /\ built /\ sc.kind = "chain"
    /\ ntrig < MaxCalls
    /\ ntrig' = ntrig + 1
    /\ LET t == ntrig + 1
       IN  Commit(executor([Cur EXCEPT !.how[t] = "await", !.ret[t] = "dropped"], t))
    /\ UNCHANGED <<sc, built>>

\* The user calls awaitOrElse(defaultValue).
AwaitOrElse ==
    /\ built /\ sc.kind = "chain"
    /\ ntrig < MaxCalls
    /\ ntrig' = ntrig + 1
    /\ LET t == ntrig + 1
       IN  Commit(executor([Cur EXCEPT !.how[t] = "awaitOrElse", !.ret[t] = "dropped"], t))
    /\ UNCHANGED <<sc, built>>

\* The timer of the Future a user function returned fires.
InnerFires(t) ==
    /\ ipend[t] > 0
    /\ LET m0 == [Cur EXCEPT !.ipend[t] = 0, !.ival[t] = NoVal]
       IN  Commit(uncaught(deliver(m0, t, ipend[t] + 1, ival[t].ch, ival[t].v), t, "timer"))
    /\ UNCHANGED <<sc, built, ntrig>>

\* Mutant: the cancel function of a settled root settles it over again.
root_cancel_resettle(m, t) ==
    LET m1 == [m EXCEPT !.canc[t][1] = @ + 1,
                        !.est[t][1] = IF @ = "pending" THEN "cancelled" ELSE @]
    IN  IF m.est[t][1] \in {"ok", "err"}
        THEN deliver(m1, t, 1, outCh(1), root_value(1)) ELSE m1

\* The cancel function of the root: of and reject return the function they
\* were given, which stops nothing; a timer Future's clears its timer.
root_cancel(m, t) ==
    [m EXCEPT !.canc[t][1] = @ + 1,
              !.est[t][1] = IF @ = "pending" THEN "cancelled" ELSE @]

\* The user calls the cancel function that extract returned.
Cancel(t) ==
    /\ ret[t] \in {"root", "own"}
    /\ ucanc[t] < MaxCancels
    /\ LET m0 == [Cur EXCEPT !.ucanc[t] = @ + 1]
       IN  Commit(IF ret[t] = "root" THEN root_cancel(m0, t) ELSE m0)
    /\ UNCHANGED <<sc, built, ntrig>>

NextChain ==
    \/ Construct
    \/ Extract
    \/ Await
    \/ AwaitOrElse
    \/ \E t \in Trig : \E i \in Idx : TimerFires(t, i)
    \/ \E t \in Trig : InnerFires(t)
    \/ \E t \in Trig : Cancel(t)

\* Chains of map, mapErr, flatMap, flatMapErr and swap.
InitChain == sc \in ChainScenarios(TransformOps, MaxOps) /\ Fresh
SpecChain == InitChain /\ [][NextChain]_vars

\* Chains that also hold match, matchErr, flatMatch and flatMatchErr.
InitMatch == sc \in ChainScenarios(TransformOps \cup MatchOps, MaxOps) /\ Fresh
SpecMatch == InitMatch /\ [][NextChain]_vars

(***************************************************************************)
(* Future.fromP(factory, m) extracted directly: the promise the factory    *)
(* returns is fulfilled or rejected, at once or from a timer; its          *)
(* reactions run in a later microtask in every case.                       *)
(***************************************************************************)
\* The mappers given: none (the default), (e) => e.message as in the tests,
\* or another function m.
Mappers == {"id", "message", "m"}

FromPScenarios ==
    {[kind |-> "fromP", arr |-> <<c>>, limit |-> 0, wrap |-> "none", mapper |-> f] :
        c \in Ctors, f \in Mappers}

NextFromP ==
    \/ Construct
    \/ Trigger
    \/ \E t \in Trig : \E i \in Idx : TimerFires(t, i)
    \/ \E t \in Trig : Then(t)

InitFromP == sc \in FromPScenarios /\ Fresh
SpecFromP == InitFromP /\ [][NextFromP]_vars

(***************************************************************************)
(* toOption and toResult: async functions.  The call runs this.await()     *)
(* and suspends at the await; the function resumes in a later microtask,   *)
(* once that promise has settled, and settles its own promise.             *)
(***************************************************************************)
\* The call, up to the await.
async_call(m, t, which) ==
    executor([m EXCEPT !.how[t] = which, !.ret[t] = "dropped",
                       !.conv[t] = [st |-> "pending", v |-> None]], t)

\* return Some(await this.await()), or catch: return None.
toOption_resume(m, t) ==
    [m EXCEPT !.conv[t] = [st |-> "resolved",
                           v |-> IF m.prom[t] = "ok" THEN Some(m.pval[t]) ELSE None]]

\* Mutant: the catch returns the success branch.
toResult_resume_ok(m, t) ==
    [m EXCEPT !.conv[t] = [st |-> "resolved", v |-> Ok(m.pval[t])]]

\* return Ok(await this.await()), or catch (err): return Err(err).
toResult_resume(m, t) ==
    [m EXCEPT !.conv[t] = [st |-> "resolved",
                           v |-> IF m.prom[t] = "ok" THEN Ok(m.pval[t]) ELSE Err(m.pval[t])]]

ToOption ==
    /\ built /\ sc.kind = "chain"
    /\ ntrig < MaxCalls
    /\ ntrig' = ntrig + 1
    /\ Commit(async_call(Cur, ntrig + 1, "toOption"))
    /\ UNCHANGED <<sc, built>>

ToResult ==
    /\ built /\ sc.kind = "chain"
    /\ ntrig < MaxCalls
    /\ ntrig' = ntrig + 1
    /\ Commit(async_call(Cur, ntrig + 1, "toResult"))
    /\ UNCHANGED <<sc, built>>

\* The awaited promise has settled: the async function resumes.
AsyncResume(t) ==
    /\ conv[t].st = "pending" /\ prom[t] \in {"ok", "err"}
    /\ Commit(IF how[t] = "toOption" THEN toOption_resume(Cur, t) ELSE toResult_resume(Cur, t))
    /\ UNCHANGED <<sc, built, ntrig>>

\* Roots that succeed with a value, with null or with undefined.
RootValues(r) == IF r \in {"of", "sleep"} THEN {"plain", "null", "undefined"} ELSE {"plain"}

ConvScenarios(ops, n) ==
    {[kind |-> "chain", arr |-> s.arr, limit |-> 0, wrap |-> "none", ops |-> s.ops, rv |-> v] :
        <<s, v>> \in {x \in ChainScenarios(ops, n) \X {"plain", "null", "undefined"} :
                        x[2] \in RootValues(x[1].arr[1])}}

NextConv ==
    \/ Construct
    \/ ToOption
    \/ ToResult
    \/ \E t \in Trig : \E i \in Idx : TimerFires(t, i)
    \/ \E t \in Trig : InnerFires(t)
    \/ \E t \in Trig : AsyncResume(t)

InitConv == sc \in ConvScenarios(TransformOps \cup MatchOps, MaxOps - 1) /\ Fresh
SpecConv == InitConv /\ [][NextConv]_vars

(***************************************************************************)
(* Future.run over generators of up to MaxLen yields, extracted once.      *)
(***************************************************************************)
RunScenarios(n) ==
    {[kind |-> "run", arr |-> a, limit |-> 0, wrap |-> "none"] : a \in Arrays(n)}

\* The user calls extract on the Future that run returned; the generator
\* is consumed by that one extraction.
RunExtract ==
    /\ built /\ sc.kind = "run"
    /\ ntrig = 0
    /\ ntrig' = ntrig + 1
    /\ Commit(Future_extract(Cur, ntrig + 1))
    /\ UNCHANGED <<sc, built>>

NextRun ==
    \/ Construct
    \/ RunExtract
    \/ \E t \in Trig : \E i \in Idx : TimerFires(t, i)

InitRun == sc \in RunScenarios(MaxLen) /\ Fresh
SpecRun == InitRun /\ [][NextRun]_vars

(***************************************************************************)
(* The generator runners of Result: the static Result.run(gen) of the      *)
(* class, and the run method of the objects that Ok(val) and Err(err)      *)
(* build.  The generator yields sc.ys in turn and then returns a Result    *)
(* made of the values it was fed.                                          *)
(***************************************************************************)
untouched == <<sc, built, ntrig, results, resolvedCount, est, inv, canc, log, fcalls,
               spc, sidx, sres, prom, pval, bidx, bcnt, bres, ord, how, ret, ucanc,
               ipend, ival, esc, conv>>

\* The receiver of run, for the object version, and what it holds.
ThisVal == ErrVal(0)
This == IF sc.via = "Err" THEN Err(ThisVal) ELSE Ok(ThisVal)

\* What the generator yields at its i-th yield, and returns when it is done.
Yielded(i) ==
    CASE sc.ys[i] = "ok" -> Ok(ErrVal(okVal(i)))
      [] sc.ys[i] = "err" -> Err(ErrVal(errVal(i)))
      [] sc.ys[i] = "undefined" -> Undefined
Returned(fed) == IF sc.ret = "ok" THEN Ok(gen_return(fed)) ELSE Err(gen_return(fed))

RECURSIVE Result_step(_, _), Result_flatMap(_, _, _)

\* Mutant: flatMap calls f on the failure branch too.
Result_flatMap_both(r, i, fed) == Result_step(i + 1, Append(fed, r.val))

\* result.value.flatMap(step) on the Result yielded at yield i: the failure
\* branch returns the failure, the success branch calls step(val).
Result_flatMap(r, i, fed) ==
    IF r.type = "err" THEN [res |-> Err(r.val), fed |-> fed, nexts |-> i]
    ELSE Result_step(i + 1, Append(fed, r.val))

\* step(value) once gen.next(value) has returned, the i-th call of next: the
\* generator is done, or suspended at yield i.  The object version takes
\* the receiver where the generator yielded undefined.
Result_step(i, fed) ==
    IF i > Len(sc.ys) THEN [res |-> Returned(fed), fed |-> fed, nexts |-> i]
    ELSE Result_flatMap(IF Yielded(i) = Undefined THEN This ELSE Yielded(i), i, fed)

\* Result.run(gen): step(); Ok(val).run(gen): step(val), whose argument the
\* first next discards; Err(err).run(): Err(err), the generator untouched.
Result_run ==
    IF sc.via = "Err" THEN [res |-> Err(ThisVal), fed |-> <<>>, nexts |-> 0]
    ELSE Result_step(1, <<>>)

Yields(via) == IF via = "static" THEN {"ok", "err"} ELSE {"ok", "err", "undefined"}

ResultRunScenarios(n) ==
    {[kind |-> "Result.run", arr |-> <<>>, limit |-> 0, wrap |-> "none",
      via |-> x[1], ys |-> x[2], ret |-> x[3]] :
        x \in {y \in {"static", "Ok", "Err"}
                         \X (UNION {[1..k -> {"ok", "err", "undefined"}] : k \in 0..n})
                         \X {"ok", "err"} :
                    \A i \in DOMAIN y[2] : y[2][i] \in Yields(y[1])}}

\* The user calls run.
ResultRun ==
    /\ sc.kind = "Result.run" /\ out = NoOut
    /\ out' = [st |-> "returned"] @@ Result_run
    /\ UNCHANGED untouched

InitResultRun == sc \in ResultRunScenarios(MaxLen) /\ Fresh
SpecResultRun == InitResultRun /\ [][ResultRun]_vars

(***************************************************************************)
(* Options: built with Some(x) or None, then transformed by map, flatMap,  *)
(* match and flatMatch, whose functions return a value, null or undefined  *)
(* (map, match) or an Option built the same way (flatMap, flatMatch).      *)
(* out.opt is the Option in hand, out.n the calls made on it so far, at    *)
(* most MaxLen.                                                            *)
(***************************************************************************)
Option_isSome(o) == o.type = "some"
\* extract(): val for Some, null for None.
Option_extract(o) == IF o.type = "some" THEN o.val ELSE Null

\* What a user function named f can return when called with v; the none
\* handlers take no argument.
FnResults(f, v) == {Applied(f, v), Null, Undefined}
FnOptions(f, v) == {Some(r) : r \in FnResults(f, v)} \cup {None}
NoArg == ErrVal(0)

\* map(fn): someConstructor(fn(val)); none: noneConstructor().
Option_map(o, r) == IF o.type = "some" THEN someConstructor(r) ELSE noneConstructor
\* flatMap(fn): fn(val); none: noneConstructor().
Option_flatMap(o, p) == IF o.type = "some" THEN p ELSE noneConstructor
\* match(fn): Some(fn.some(val)); none: Some(fn.none()).
Option_match(o, r) == Some(r)
\* flatMatch(fn): fn.some(val); none: fn.none().
Option_flatMatch(o, p) == p

\* The argument the selected function receives.
Arg(o) == IF o.type = "some" THEN o.val ELSE NoArg

\* The user builds an Option: Some(x) for a value, null or undefined, or None.
OptionMake ==
    /\ sc.kind = "Option" /\ out = NoOut
    /\ \E o \in {Some(ErrVal(1)), Some(Null), Some(Undefined), None} :
            out' = [st |-> "returned", opt |-> o, n |-> 0, last |-> "Some"]
    /\ UNCHANGED untouched

OptionMap ==
    /\ sc.kind = "Option" /\ out # NoOut /\ out.n < MaxLen
    /\ \E r \in FnResults("f", Arg(out.opt)) :
            out' = [out EXCEPT !.opt = Option_map(out.opt, r), !.n = @ + 1, !.last = "map"]
    /\ UNCHANGED untouched

OptionFlatMap ==
    /\ sc.kind = "Option" /\ out # NoOut /\ out.n < MaxLen
    /\ \E p \in FnOptions("g", Arg(out.opt)) :
            out' = [out EXCEPT !.opt = Option_flatMap(out.opt, p), !.n = @ + 1,
                               !.last = "flatMap"]
    /\ UNCHANGED untouched

OptionMatch ==
    /\ sc.kind = "Option" /\ out # NoOut /\ out.n < MaxLen
    /\ \E r \in FnResults(IF Option_isSome(out.opt) THEN "some" ELSE "none", Arg(out.opt)) :
            out' = [out EXCEPT !.opt = Option_match(out.opt, r), !.n = @ + 1, !.last = "match"]
    /\ UNCHANGED untouched

OptionFlatMatch ==
    /\ sc.kind = "Option" /\ out # NoOut /\ out.n < MaxLen
    /\ \E p \in FnOptions(IF Option_isSome(out.opt) THEN "some" ELSE "none", Arg(out.opt)) :
            out' = [out EXCEPT !.opt = Option_flatMatch(out.opt, p), !.n = @ + 1,
                               !.last = "flatMatch"]
    /\ UNCHANGED untouched

NextOption ==
    \/ OptionMake
    \/ OptionMap
    \/ OptionFlatMap
    \/ OptionMatch
    \/ OptionFlatMatch

InitOption ==
    /\ sc = [kind |-> "Option", arr |-> <<>>, limit |-> 0, wrap |-> "none"]
    /\ Fresh
SpecOption == InitOption /\ [][NextOption]_vars

(***************************************************************************)
(* Results: built with Ok(x) or Err(x), transformed by map and mapErr,     *)
(* then converted with toOption.  out.res is the Result in hand, out.opt   *)
(* what toOption returned, out.n the calls of map and mapErr so far.       *)
(***************************************************************************)
\* map(fn): Ok(fn(val)); on Err: Err(err).
Result_map(r, x) == IF r.type = "ok" THEN Ok(x) ELSE Err(r.val)
\* mapErr(fn): Err(fn(err)); on Ok: Ok(val).
Result_mapErr(r, x) == IF r.type = "err" THEN Err(x) ELSE Ok(r.val)

\* Mutant: the failure branch converts like the success branch.
Result_toOption_both(r) == Some(r.val)

\* toOption(): Some(val!) on Ok, None on Err.
Result_toOption(r) == IF r.type = "ok" THEN Some(r.val) ELSE None

\* The user builds a Result holding a value, null or undefined.
ResultMake ==
    /\ sc.kind = "Result" /\ out = NoOut
    /\ \E x \in {ErrVal(1), Null, Undefined} : \E r \in {Ok(x), Err(x)} :
            out' = [st |-> "returned", res |-> r, opt |-> None, n |-> 0, last |-> "make"]
    /\ UNCHANGED untouched

ResultMap ==
    /\ sc.kind = "Result" /\ out # NoOut /\ out.last # "toOption" /\ out.n < MaxLen
    /\ \E x \in FnResults("f", out.res.val) :
            out' = [out EXCEPT !.res = Result_map(out.res, x), !.n = @ + 1, !.last = "map"]
    /\ UNCHANGED untouched

ResultMapErr ==
    /\ sc.kind = "Result" /\ out # NoOut /\ out.last # "toOption" /\ out.n < MaxLen
    /\ \E x \in FnResults("h", out.res.val) :
            out' = [out EXCEPT !.res = Result_mapErr(out.res, x), !.n = @ + 1,
                               !.last = "mapErr"]
    /\ UNCHANGED untouched

ResultToOption ==
    /\ sc.kind = "Result" /\ out # NoOut /\ out.last # "toOption"
    /\ out' = [out EXCEPT !.opt = Result_toOption(out.res), !.last = "toOption"]
    /\ UNCHANGED untouched

NextResult ==
    \/ ResultMake
    \/ ResultMap
    \/ ResultMapErr
    \/ ResultToOption

InitResult ==
    /\ sc = [kind |-> "Result", arr |-> <<>>, limit |-> 0, wrap |-> "none"]
    /\ Fresh
SpecResult == InitResult /\ [][NextResult]_vars

(***************************************************************************)
(* The combinators with the function their extract returns.  The action of *)
(* all and allSafe, and fromP's under seq and seqSafe, end with            *)
(* return () => true: that is what the caller of extract holds.            *)
(***************************************************************************)
combinator_cancel(m, t) == [m EXCEPT !.ucanc[t] = @ + 1]

\* The user calls the function that extract on the combinator returned.
CombinatorCancel(t) ==
    /\ t <= ntrig /\ ucanc[t] < MaxCancels
    /\ Commit(combinator_cancel(Cur, t))
    /\ UNCHANGED <<sc, built, ntrig>>

NextCancel ==
    \/ Construct
    \/ Trigger
    \/ \E t \in Trig : \E i \in Idx : TimerFires(t, i)
    \/ \E t \in Trig : Resume(t)
    \/ \E t \in Trig : Then(t)
    \/ \E t \in Trig : CombinatorCancel(t)

InitCancel == InitWith({"none"}, MaxLen, 0)
SpecCancel == InitCancel /\ [][NextCancel]_vars

\* Chains of map, mapErr, flatMap, flatMapErr and swap extracted with a
\* success callback that throws.
ThrowScenarios(n) == {[cb |-> "throws"] @@ s : s \in ChainScenarios(TransformOps, n)}
InitThrow == sc \in ThrowScenarios(MaxOps) /\ Fresh
SpecThrow == InitThrow /\ [][NextChain]_vars

\* Chains of match, matchErr, flatMatch and flatMatchErr alone.
InitHandlers == sc \in ChainScenarios(MatchOps, MaxOps) /\ Fresh
SpecHandlers == InitHandlers /\ [][NextChain]_vars

(***************************************************************************)
(* Two Futures derived from the same f, extracted side by side: f is a     *)
(* root under a prefix of derivations, one Future is f under sc.ops' tail  *)
(* and the other f under sc.alt's.                                         *)
(***************************************************************************)
MapFn(fs) == [op |-> "map", thr |-> FALSE, inner |-> "of", fn |-> fs]

\* f.map(x => x) beside f; f.map(g).map(h) beside f.map(x => h(g(x))).
LawPairs ==
    {<< <<MapFn(<<>>)>>, <<>> >>}
    \cup {<< <<MapFn(<<g>>), MapFn(<<h>>)>>, <<MapFn(<<g, h>>)>> >> : g \in Fns, h \in Fns}

LawScenarios(n) ==
    {[kind |-> "law", arr |-> x[1].arr, limit |-> 0, wrap |-> "none",
      ops |-> x[1].ops \o x[2][1], alt |-> x[1].ops \o x[2][2]] :
        x \in ChainScenarios(TransformOps, n) \X LawPairs}

NextLaw ==
    \/ Construct
    \/ Extract
    \/ \E t \in Trig : \E i \in Idx : TimerFires(t, i)
    \/ \E t \in Trig : InnerFires(t)

InitLaw == sc \in LawScenarios(MaxOps - 1) /\ Fresh
SpecLaw == InitLaw /\ [][NextLaw]_vars

(***************************************************************************)
(* A Future f and a Future derived from it by a chain of derivations,      *)
(* extracted in any order and overlapping: sc.calls[t] says which of the   *)
(* two call t is made on.                                                  *)
(***************************************************************************)
ParentScenarios(n) ==
    {[kind |-> "parent", arr |-> x[1].arr, limit |-> 0, wrap |-> "none",
      ops |-> x[1].ops, calls |-> x[2]] :
        x \in {y \in ChainScenarios(TransformOps \cup MatchOps, n) \X [Trig -> {"f", "derived"}] :
                    y[1].ops # <<>>}}

InitParent == sc \in ParentScenarios(MaxOps - 1) /\ Fresh
SpecParent == InitParent /\ [][NextLaw]_vars

(***************************************************************************)
(* Vocabulary of the properties.                                           *)
(***************************************************************************)
Started(t) == t <= ntrig
Settled(t, i) == est[t][i] \in {"ok", "err"}
Pending(t) == {i \in Idx : est[t][i] = "pending"}
AllSucceed == \A i \in Idx : Succeeds(i)
Failing == {i \in Idx : ~Succeeds(i)}
Least(S) == CHOOSE i \in S : \A j \in S : i <= j

\* Trigger t has nothing left to run: no element of it is pending, no
\* continuation or reaction of it is waiting.
Quiet(t) ==
    /\ Started(t)
    /\ Pending(t) = {}
    /\ spc[t] \in {"idle", "done"}

\* The calls a trigger's callbacks are expected to have received.
OkList == [i \in Idx |-> okVal(i)]
OutList == [i \in Idx |-> outVal(i)]
OkCall(xs) == [ch |-> "ok", v |-> ListVal(xs)]
ErrCall(e) == [ch |-> "err", v |-> ErrVal(e)]
Calls(t, ch) == {n \in DOMAIN log[t] : log[t][n].ch = ch}

Direct == sc.wrap = "none"
Unlimited == sc.limit = 0

\* Element i + 1 is not started before element i has settled.
InOrder(t) == \A i \in Idx : i < N /\ inv[t][i + 1] > 0 => Settled(t, i)

(***************************************************************************)
(* C1  Laziness: building the Future under test (seq, seqSafe, all or      *)
(* allSafe over of / reject / constructor elements, seq being a            *)
(* fromP(factory)), alone or under map, mapErr, flatMap, flatMapErr, swap, *)
(* match or flatMatch, invokes no action and no user function or callback; *)
(* whatever has been invoked was invoked on behalf of an extract call made *)
(* before.                                                                 *)
(***************************************************************************)
C1_Lazy ==
    /\ \A t \in Trig : ~Started(t) =>
          /\ \A i \in Idx : inv[t][i] = 0 /\ canc[t][i] = 0 /\ est[t][i] = "idle"
          /\ log[t] = <<>>
          /\ spc[t] = "idle"
    /\ ntrig = 0 => fcalls = 0

\* Built under a derivation, over a list that has elements, not yet triggered.
C1_Witness == built /\ ntrig = 0 /\ N >= 2 /\ sc.wrap = "flatMap" /\ sc.kind = "seq"

(***************************************************************************)
(* C2  seq ordering: in a trigger of seq whose elements all succeed,       *)
(* element i + 1 is not started before element i has settled, every        *)
(* element's action is invoked exactly once, and the trigger ends with one *)
(* call, of the success callback, with the elements' values in input order.*)
(***************************************************************************)
C2_SeqOrdered ==
    (Direct /\ sc.kind = "seq" /\ AllSucceed) =>
        \A t \in Trig :
            /\ InOrder(t)
            /\ \A i \in Idx : inv[t][i] <= 1
            /\ log[t] # <<>> => \A i \in Idx : inv[t][i] = 1 /\ Settled(t, i)
            /\ log[t] \in {<<>>, <<OkCall(OkList)>>}
            /\ Quiet(t) => log[t] = <<OkCall(OkList)>>

\* A second trigger of a seq of three succeeding elements, one on a timer,
\* has delivered its list.
C2_Witness ==
    /\ Direct /\ sc.kind = "seq" /\ AllSucceed /\ N = 3
    /\ Timers(sc.arr) # {}
    /\ Quiet(2) /\ log[2] # <<>>

(***************************************************************************)
(* C3  seq failure: in a trigger of seq in which element i is the first to *)
(* fail, the success callback is never called, the trigger ends with the   *)
(* failure callback called with element i's failure value, and once the    *)
(* failure is caught the cancel function of every element after i has been *)
(* invoked.                                                                *)
(***************************************************************************)
C3_SeqFails ==
    (Direct /\ sc.kind = "seq" /\ Failing # {}) =>
        \A t \in Trig :
            /\ Calls(t, "ok") = {}
            /\ log[t] \in {<<>>, <<ErrCall(errVal(Least(Failing)))>>}
            /\ Quiet(t) => log[t] = <<ErrCall(errVal(Least(Failing)))>>
            /\ spc[t] \in {"rejected", "done"} =>
                  \A j \in Idx : j > Least(Failing) => canc[t][j] >= 1

\* The second of three elements failed, from a timer, and the failure was
\* delivered.
C3_Witness ==
    /\ Direct /\ sc.kind = "seq" /\ N = 3
    /\ sc.arr[1] = "sleep" /\ sc.arr[2] = "fail"
    /\ Quiet(1) /\ log[1] # <<>>

Observed == {i \in Idx : est[1][i] # "err" /\ est'[1][i] = "err"}

C5_Once == Direct /\ sc.kind = "all" /\ Unlimited /\ Failing # {} /\ ntrig' = 1

C5_Step ==
    C5_Once =>
        /\ Calls(1, "ok")' = {}
        /\ (log[1] = <<>> /\ Observed # {}) =>
              log'[1] # <<>> /\ log'[1][1] = ErrCall(errVal(Least(Observed)))
        /\ (log[1] = <<>> /\ Observed = {}) => log'[1] = <<>>
        /\ log[1] # <<>> => log'[1] # <<>> /\ log'[1][1] = log[1][1]

C6_SingleSettlement ==
    (Direct /\ sc.kind \in {"all", "allSafe"} /\ Unlimited /\ ntrig = 1) =>
        /\ Len(log[1]) <= 1
        /\ Quiet(1) => Len(log[1]) = 1

(***************************************************************************)
(* C7  Re-triggering: every trigger of the Future of all or allSafe, the   *)
(* first or a later one, apart from or overlapping with another, is        *)
(* settled with its own complete, ordered list.                            *)
(***************************************************************************)
C7_Retrigger ==
    (Direct /\ Unlimited /\ (sc.kind = "allSafe" \/ (sc.kind = "all" /\ AllSucceed))) =>
        \A t \in Trig :
            /\ log[t] \in {<<>>, <<OkCall(OutList)>>}
            /\ Quiet(t) => log[t] = <<OkCall(OutList)>>

(***************************************************************************)
(* C8  seqSafe: whatever the list and the outcomes, a trigger of seqSafe   *)
(* runs every element once, in input order, never calls the failure        *)
(* callback, and ends with the success callback called with the list       *)
(* holding at index i the success or failure value of element i.           *)
(***************************************************************************)
C8_SeqSafe ==
    (Direct /\ sc.kind = "seqSafe") =>
        \A t \in Trig :
            /\ InOrder(t)
            /\ \A i \in Idx : inv[t][i] <= 1
            /\ log[t] # <<>> => \A i \in Idx : inv[t][i] = 1 /\ Settled(t, i)
            /\ log[t] \in {<<>>, <<OkCall(OutList)>>}
            /\ Quiet(t) => log[t] = <<OkCall(OutList)>>

\* Three elements of which the first two fail, and the list was delivered.
C8_Witness ==
    /\ Direct /\ sc.kind = "seqSafe" /\ N = 3 /\ Failing = {1, 2}
    /\ sc.arr[1] = "fail"
    /\ Quiet(1) /\ log[1] # <<>>

C10_Batches ==
    (Direct /\ sc.limit > 0) =>
        \A t \in Trig :
            /\ \A i, j \in Idx :
                  BatchOf(j) = BatchOf(i) + 1 /\ inv[t][j] > 0 => Settled(t, i)
            /\ Cardinality(Pending(t)) <= sc.limit
            /\ \A n \in Calls(t, "ok") : log[t][n] = OkCall(OutList)
            /\ (Quiet(t) /\ (sc.kind = "allSafe" \/ AllSucceed)) =>
                  log[t] = <<OkCall(OutList)>>

\* Three elements with limit 2: the two timers of the first batch were
\* pending together, the second batch ran after them and the list was
\* delivered.
C10_Witness ==
    /\ Direct /\ sc.limit = 2 /\ N = 3
    /\ sc.arr = <<"sleep", "fail", "of">> /\ sc.kind = "allSafe"
    /\ bidx[1] = 2 /\ Quiet(1) /\ log[1] # <<>>

(***************************************************************************)
(* C11  Unbounded concurrency: a trigger of all or allSafe with no limit   *)
(* invokes the action of every element, once and in input order, within    *)
(* the extract call itself: whether an element has settled or is still     *)
(* pending has no bearing on the start of another.                         *)
(***************************************************************************)
C11_Concurrent ==
    (Direct /\ sc.kind \in {"all", "allSafe"} /\ Unlimited) =>
        \A t \in Trig :
            /\ Started(t) => ord[t] = [i \in Idx |-> Act(i)]
            /\ ~Started(t) => ord[t] = <<>>

\* The first and the last of three elements are pending together, an
\* element that settled at once between them.
C11_Witness ==
    /\ Direct /\ sc.kind = "all" /\ Unlimited /\ N = 3
    /\ sc.arr = <<"sleep", "of", "fail">>
    /\ est[1][1] = "pending" /\ est[1][3] = "pending"
    /\ Len(ord[1]) = 3

(***************************************************************************)
(* C13  all cancels on failure: in a trigger of all (no limit, the Future  *)
(* triggered once), once an element has failed the cancel function of      *)
(* every element still pending has been invoked.                           *)
(***************************************************************************)
C13_AllCancels ==
    (Direct /\ sc.kind = "all" /\ Unlimited /\ ntrig = 1) =>
        \A i, j \in Idx :
            est[1][i] = "err" /\ est[1][j] = "pending" => canc[1][j] >= 1

(***************************************************************************)
(* Vocabulary of the chains.                                               *)
(***************************************************************************)
Root == sc.arr[1]
RootVal == root_value(1)
OpsIn(S) == \A j \in DOMAIN sc.ops : sc.ops[j].op \in S
NoThrow == \A j \in DOMAIN sc.ops : ~sc.ops[j].thr
\* The user functions invoked for trigger t, in order.
FnCalls(t) == SelectSeq(ord[t], LAMBDA x : x.what # "action")
Invoked(t, what, j) == \E n \in DOMAIN ord[t] : ord[t][n] = Fn(what, j)
\* What trigger t has shown its caller: the calls of extract's callbacks, or
\* the settlement of the promise.
Got(t, c, v) ==
    CASE how[t] = "extract" -> log[t] = <<[ch |-> c, v |-> v]>>
      [] how[t] \in {"await", "awaitOrElse"} -> prom[t] = c /\ pval[t] = v
GotNothing(t) ==
    CASE how[t] = "none" -> TRUE
      [] how[t] = "extract" -> log[t] = <<>>
      [] how[t] \in {"await", "awaitOrElse"} -> prom[t] = "pending"
\* What the caller of trigger t sees of a Future that settles on c with v.
Sees(t, c, v) ==
    Got(t, IF how[t] = "awaitOrElse" THEN "ok" ELSE c,
           IF how[t] = "awaitOrElse" /\ c = "err" THEN Default ELSE v)
\* What it sees of a Future that settles on c.
SeesCh(t, c) ==
    CASE how[t] = "extract" -> Len(log[t]) = 1 /\ log[t][1].ch = c
      [] how[t] = "await" -> prom[t] = c
      [] how[t] = "awaitOrElse" -> prom[t] = "ok"
\* The handlers of derivation j invoked for trigger t, in order.
Handlers(t, j) == SelectSeq(ord[t], LAMBDA x : x.what # "action" /\ x.at = j)
\* The handler that f's outcome selects.
Selected == IF Succeeds(1) THEN "onSuccess" ELSE "onFailure"
\* Trigger t has nothing left to run.
QuietChain(t) == Started(t) /\ est[t][1] # "pending" /\ ipend[t] = 0

(***************************************************************************)
(* C12  Cancellation: for a root Future whose action arms a timer and      *)
(* returns a cancel function that clears it, alone or under a chain of     *)
(* map, mapErr and swap, once the user has called the cancel function that *)
(* extract returned while no callback had been invoked, no callback and no *)
(* user function is invoked in any later step.                             *)
(***************************************************************************)
C12_Scope == Root \in {"sleep", "fail"} /\ OpsIn({"map", "mapErr", "swap"})

C12_Step ==
    C12_Scope =>
        \A t \in Trig :
            (ucanc[t] >= 1 /\ log[t] = <<>>) => log'[t] = <<>> /\ ord'[t] = ord[t]

C12_Cancelled == [][C12_Step]_vars

\* The timer of the root under map and swap was cleared through the
\* function the derived Future's extract returned.
C12_Witness ==
    /\ Root = "sleep" /\ K = 2
    /\ sc.ops[1].op = "map" /\ sc.ops[2].op = "swap"
    /\ ucanc[1] = 1 /\ canc[1][1] = 1 /\ est[1][1] = "cancelled" /\ log[1] = <<>>

(***************************************************************************)
(* C14  Exceptions in transformers: in a chain of map, flatMap, mapErr,    *)
(* flatMapErr and swap no exception leaves extract, await, awaitOrElse or  *)
(* a timer callback and at most one call of a callback is made; when the   *)
(* function of the outermost derivation throws x, the chain fails with x:  *)
(* extract calls the failure callback with x, once, and nothing else,      *)
(* await rejects with x, awaitOrElse resolves to the default.              *)
(***************************************************************************)
C14_Throws ==
    \A t \in Trig :
        /\ esc[t] = NoEsc
        /\ Len(log[t]) <= 1
        /\ (K >= 1 /\ sc.ops[K].thr /\ Invoked(t, "f", K)) =>
              /\ how[t] = "extract" => log[t] = <<[ch |-> "err", v |-> Thrown(K)]>>
              /\ how[t] = "await" => prom[t] = "err" /\ pval[t] = Thrown(K)
              /\ how[t] = "awaitOrElse" => prom[t] = "ok" /\ pval[t] = Default

\* The function given to map threw inside the timer callback of the Future
\* that flatMapErr's function had returned, and the failure callback got it.
C14_Witness ==
    /\ Root = "fail" /\ K = 2
    /\ sc.ops[1].op = "flatMapErr" /\ sc.ops[1].inner = "sleep" /\ ~sc.ops[1].thr
    /\ sc.ops[2].op = "map" /\ sc.ops[2].thr
    /\ how[1] = "extract" /\ log[1] = <<[ch |-> "err", v |-> Thrown(2)]>>

(***************************************************************************)
(* C15  No raw exception through extract: for a chain whose outermost      *)
(* derivation is match, matchErr, flatMatch or flatMatchErr, extract does  *)
(* not throw, also when the handler that is selected throws.               *)
(***************************************************************************)
C15_NoRaise ==
    (K >= 1 /\ sc.ops[K].op \in {"match", "matchErr", "flatMatch", "flatMatchErr"}) =>
        \A t \in Trig : esc[t].st # "extract"

(***************************************************************************)
(* C16  Failure propagation: when the root fails with e, under any chain   *)
(* of map and flatMap no function of the chain is ever invoked, and the    *)
(* chain shows its caller the failure e, unchanged, and nothing else.      *)
(***************************************************************************)
C16_FailurePasses ==
    (OpsIn({"map", "flatMap"}) /\ ~Succeeds(1)) =>
        \A t \in Trig :
            /\ FnCalls(t) = <<>> /\ fcalls = 0
            /\ est[t][1] # "err" => GotNothing(t)
            /\ est[t][1] = "err" =>
                  Got(t, IF how[t] = "awaitOrElse" THEN "ok" ELSE "err",
                         IF how[t] = "awaitOrElse" THEN Default ELSE RootVal)

\* The root failed from its timer under map and a flatMap, and the failure
\* callback received the root's value.
C16_Witness ==
    /\ Root = "fail" /\ K = 2
    /\ sc.ops[1].op = "map" /\ sc.ops[2].op = "flatMap" /\ sc.ops[2].inner = "sleep"
    /\ how[1] = "extract" /\ log[1] = <<[ch |-> "err", v |-> RootVal]>>

C18_NeverRejects ==
    \A t \in Trig : how[t] = "awaitOrElse" => prom[t] # "err"

(***************************************************************************)
(* C19  await outcome: the promise returned by await resolves with the     *)
(* value the Future succeeds with and rejects with exactly the value the   *)
(* Future fails with; it stays pending until the Future settles.  Checked  *)
(* on chains of map, mapErr and swap whose functions return, where the     *)
(* outcome of the Future is the root's, relabelled by the chain.           *)
(***************************************************************************)
RECURSIVE Expect(_, _, _)
\* The outcome of derivations j..K on a Future that settles on c with v.
Expect(j, c, v) ==
    IF j > K THEN [ch |-> c, v |-> v]
    ELSE CASE sc.ops[j].op = "map" ->
                Expect(j + 1, c, IF c = "ok" THEN Applied(Fn("f", j), v) ELSE v)
           [] sc.ops[j].op = "mapErr" ->
                Expect(j + 1, c, IF c = "err" THEN Applied(Fn("f", j), v) ELSE v)
           [] sc.ops[j].op = "swap" -> Expect(j + 1, IF c = "ok" THEN "err" ELSE "ok", v)

C19_Await ==
    (OpsIn({"map", "mapErr", "swap"}) /\ NoThrow) =>
        \A t \in Trig :
            how[t] = "await" =>
                /\ Settled(t, 1) =>
                      Got(t, Expect(1, outCh(1), RootVal).ch, Expect(1, outCh(1), RootVal).v)
                /\ ~Settled(t, 1) => prom[t] = "pending"

\* The root failed from its timer under mapErr: the promise is rejected
\* with f(e) itself.
C19_Witness ==
    /\ Root = "fail" /\ K = 1 /\ sc.ops[1] = Op("mapErr", FALSE, "reject")
    /\ how[1] = "await" /\ prom[1] = "err"
    /\ pval[1] = Applied(Fn("f", 1), RootVal)

(***************************************************************************)
(* C20  swap: f.swap() succeeds with e exactly when f fails with e and     *)
(* fails with v exactly when f succeeds with v; f.swap().swap() invokes    *)
(* the callback f would invoke, with the same value; the extract of both   *)
(* returns the cancel function that f's action returned.                   *)
(***************************************************************************)
C20_Swap ==
    (K >= 1 /\ OpsIn({"swap"})) =>
        \A t \in Trig :
            how[t] = "extract" =>
                /\ ret[t] = "root"
                /\ ~Settled(t, 1) => log[t] = <<>>
                /\ (Settled(t, 1) /\ K = 1) =>
                      log[t] = <<[ch |-> IF Succeeds(1) THEN "err" ELSE "ok", v |-> RootVal]>>
                /\ (Settled(t, 1) /\ K = 2) =>
                      log[t] = <<[ch |-> outCh(1), v |-> RootVal]>>

\* f.swap().swap() over a root that failed from its timer.
C20_Witness ==
    /\ Root = "fail" /\ K = 2 /\ OpsIn({"swap"})
    /\ how[1] = "extract" /\ ret[1] = "root"
    /\ log[1] = <<[ch |-> "err", v |-> RootVal]>>

(***************************************************************************)
(* C21  map laws: for f a root under any chain of derivations and g, h     *)
(* functions that return, f.map(x => x) calls the callback f calls, with   *)
(* the same value, and f.map(g).map(h) the callback f.map(x => h(g(x)))    *)
(* calls, with the same value: once both extracts have nothing left to     *)
(* run, each has made one call and the two calls are equal.                *)
(***************************************************************************)
C21_MapLaws ==
    (sc.kind = "law" /\ QuietChain(1) /\ QuietChain(2)) =>
        Len(log[1]) = 1 /\ log[2] = log[1]

\* f succeeds from a timer with 1, g = x => x + 1 and h = x => 2 * x: both
\* Futures have given 4 to the success callback.
C21_Witness ==
    /\ sc.kind = "law" /\ Root = "sleep"
    /\ sc.ops = <<MapFn(<<"inc">>), MapFn(<<"dbl">>)>>
    /\ QuietChain(1) /\ QuietChain(2)
    /\ log[1] = <<[ch |-> "ok", v |-> ErrVal(4)]>> /\ log[2] = log[1]

(***************************************************************************)
(* C22  match / matchErr: with handlers that return, a chain that ends in  *)
(* match settles as a success and one that ends in matchErr as a failure,  *)
(* and one handler of it is invoked, once; over a root f alone, the        *)
(* handler is onSuccess when f succeeds and onFailure when f fails, and    *)
(* the value is what that handler returned for f's value.                  *)
(***************************************************************************)
C22_Match ==
    (K >= 1 /\ NoThrow /\ sc.ops[K].op \in {"match", "matchErr"}) =>
        \A t \in Trig :
            /\ Len(Handlers(t, K)) <= 1
            /\ (QuietChain(t) /\ est[t][1] # "cancelled") =>
                  /\ Len(Handlers(t, K)) = 1
                  /\ SeesCh(t, IF sc.ops[K].op = "match" THEN "ok" ELSE "err")
            /\ (K = 1 /\ Settled(t, 1)) =>
                  /\ Handlers(t, 1) = <<Fn(Selected, 1)>>
                  /\ Sees(t, IF sc.ops[1].op = "match" THEN "ok" ELSE "err",
                             Applied(Fn(Selected, 1), RootVal))

\* f failed from its timer and f.match(h) gave h.onFailure(e) to the
\* success callback.
C22_Witness ==
    /\ Root = "fail" /\ K = 1 /\ sc.ops[1] = Op("match", FALSE, "of")
    /\ how[1] = "extract"
    /\ log[1] = <<[ch |-> "ok", v |-> Applied(Fn("onFailure", 1), RootVal)]>>

(***************************************************************************)
(* C23  flatMatch / flatMatchErr: over a root f, with handlers that        *)
(* return, the Future settles on the channel and with the value of the     *)
(* Future that the selected handler returned (onSuccess when f succeeds,   *)
(* onFailure when f fails), when that Future settles and not before; the   *)
(* other handler is never invoked.                                         *)
(***************************************************************************)
C23_FlatMatch ==
    (K = 1 /\ NoThrow /\ sc.ops[1].op \in {"flatMatch", "flatMatchErr"}) =>
        \A t \in Trig :
            /\ Handlers(t, 1) \in {<<>>, <<Fn(Selected, 1)>>}
            /\ Settled(t, 1) => Handlers(t, 1) = <<Fn(Selected, 1)>>
            /\ (~Settled(t, 1) \/ ipend[t] > 0) => GotNothing(t)
            /\ (Settled(t, 1) /\ ipend[t] = 0) =>
                  Sees(t, IF sc.ops[1].inner = "reject" THEN "err" ELSE "ok",
                          Applied(Fn(Selected, 1), RootVal))

\* f failed, onFailure returned a Future that succeeded later from a
\* timer, and the success callback received that Future's value.
C23_Witness ==
    /\ Root = "reject" /\ K = 1 /\ sc.ops[1] = Op("flatMatch", FALSE, "sleep")
    /\ how[1] = "extract"
    /\ log[1] = <<[ch |-> "ok", v |-> Applied(Fn("onFailure", 1), RootVal)]>>

(***************************************************************************)
(* C24  fromP: Future.fromP(factory, m) does not call the factory when it  *)
(* is built; every trigger calls it exactly once; the trigger ends with    *)
(* one call: the success callback with v when the promise fulfils with v,  *)
(* the failure callback with m(e) when it rejects with e, m being the      *)
(* identity by default.                                                    *)
(***************************************************************************)
C24_Expected ==
    IF Succeeds(1) THEN [ch |-> "ok", v |-> ErrVal(okVal(1))]
    ELSE [ch |-> "err",
          v |-> IF sc.mapper = "id" THEN ErrVal(errVal(1))
                ELSE Applied(sc.mapper, ErrVal(errVal(1)))]

C24_FromP ==
    sc.kind = "fromP" =>
        \A t \in Trig :
            /\ inv[t][1] = IF Started(t) THEN 1 ELSE 0
            /\ log[t] \in {<<>>, <<C24_Expected>>}
            /\ spc[t] # "done" => log[t] = <<>>
            /\ Quiet(t) => log[t] = <<C24_Expected>>

\* A second trigger of a fromP whose promise rejects from a timer, with a
\* mapper: the failure callback received m(e).
C24_Witness ==
    /\ sc.kind = "fromP" /\ sc.arr = <<"fail">> /\ sc.mapper = "m"
    /\ Quiet(2) /\ log[2] = <<[ch |-> "err", v |-> Applied("m", ErrVal(errVal(1)))]>>

(***************************************************************************)
(* What a Future settles with, for the callers of toOption and toResult:   *)
(* the outcome of the promise of this.await(), which for chains of map,    *)
(* mapErr and swap whose functions return is the root's outcome relabelled *)
(* by the chain.                                                           *)
(***************************************************************************)
Simple == OpsIn({"map", "mapErr", "swap"}) /\ NoThrow
Outcome == Expect(1, outCh(1), RootVal)
Nullish(v) == v = Null \/ v = Undefined
Converted(t) == conv[t].st = "resolved"

\* The promise of the conversion is pending until the Future has settled and
\* the function has resumed, is never rejected, and on a chain of map,
\* mapErr and swap the awaited promise carries the chain's outcome.
ConvFollows(t) ==
    /\ conv[t].st \in {"pending", "resolved"}
    /\ Converted(t) => prom[t] \in {"ok", "err"}
    /\ (Simple /\ Settled(t, 1)) => (prom[t] = Outcome.ch /\ pval[t] = Outcome.v)
    /\ (Simple /\ ~Settled(t, 1)) => conv[t].st = "pending"

(***************************************************************************)
(* C25  toOption as stated: the promise of toOption() never rejects; it    *)
(* resolves to a present option holding v whenever the Future succeeds     *)
(* with v, and to the empty option whenever the Future fails.              *)
(***************************************************************************)
C25_Present ==
    \A t \in Trig :
        how[t] = "toOption" =>
            /\ ConvFollows(t)
            /\ Converted(t) =>
                  conv[t].v = IF prom[t] = "ok" THEN someConstructor(pval[t]) ELSE None

(***************************************************************************)
(* C25  toOption, amended: the promise of toOption() never rejects; it     *)
(* resolves to a present option holding v whenever the Future succeeds     *)
(* with a v that is neither null nor undefined, and to the empty option    *)
(* whenever the Future succeeds with null or undefined or fails.           *)
(***************************************************************************)
C25_ToOption ==
    \A t \in Trig :
        how[t] = "toOption" =>
            /\ ConvFollows(t)
            /\ Converted(t) =>
                  conv[t].v = IF prom[t] = "ok" /\ ~Nullish(pval[t])
                              THEN someConstructor(pval[t]) ELSE None

\* Future.of(null).toOption() has resolved, to the empty option.
C25_Witness ==
    /\ Root = "of" /\ K = 0 /\ sc.rv = "null"
    /\ how[1] = "toOption" /\ prom[1] = "ok" /\ pval[1] = Null
    /\ Converted(1) /\ conv[1].v = None

(***************************************************************************)
(* C26  toResult: the promise of toResult() never rejects; it resolves to  *)
(* a success-branch Result holding v when the Future succeeds with v and   *)
(* to a failure-branch Result holding e when the Future fails with e.      *)
(***************************************************************************)
C26_ToResult ==
    \A t \in Trig :
        how[t] = "toResult" =>
            /\ ConvFollows(t)
            /\ Converted(t) =>
                  conv[t].v = IF prom[t] = "ok" THEN Ok(pval[t]) ELSE Err(pval[t])

\* A root that fails from its timer under mapErr: toResult() has resolved
\* to the failure branch holding f(e).
C26_Witness ==
    /\ Root = "fail" /\ K = 1 /\ sc.ops[1] = Op("mapErr", FALSE, "reject")
    /\ how[1] = "toResult" /\ Converted(1)
    /\ conv[1].v = Err(Applied(Fn("f", 1), RootVal))

(***************************************************************************)
(* C27  Empty input: all([]) and allSafe([]) invoke the success callback   *)
(* with an empty list during the trigger itself, on every trigger, and     *)
(* never invoke the failure callback.                                      *)
(***************************************************************************)
C27_Empty ==
    (sc.kind \in {"all", "allSafe"} /\ N = 0) =>
        \A t \in Trig : log[t] = IF Started(t) THEN <<OkCall(<<>>)>> ELSE <<>>

\* allSafe([]) triggered twice: each trigger has made its call.
C27_Witness ==
    /\ sc.kind = "allSafe" /\ N = 0 /\ sc.limit = 0
    /\ ntrig = 2 /\ log[1] = <<OkCall(<<>>)>> /\ log[2] = <<OkCall(<<>>)>>

(***************************************************************************)
(* C28  Future.run: the success value of each yielded Future is fed back   *)
(* into the generator in yield order; if a yielded Future fails with e,    *)
(* the generator is never resumed past that yield and the run Future fails *)
(* with e; if none fails, the run Future succeeds with the generator's     *)
(* return value.                                                           *)
(***************************************************************************)
\* The yields passed so far: those whose Future has succeeded.
Passed(t) == {i \in Idx : est[t][i] = "ok"}
FirstFailure == IF Failing = {} THEN N + 1 ELSE Least(Failing)

C28_Run ==
    sc.kind = "run" =>
        /\ ~Started(1) => (built => fcalls = 1)
        /\ Started(1) =>
              /\ sres[1] = [i \in 1..Cardinality(Passed(1)) |-> okVal(i)]
              /\ Passed(1) = 1..Len(sres[1])
              /\ fcalls = 1 + Len(sres[1])
              /\ \A i \in Idx : i > FirstFailure => inv[1][i] = 0
              /\ Len(sres[1]) < FirstFailure
              /\ log[1] \in {<<>>, <<ErrCall(errVal(FirstFailure))>>,
                             <<[ch |-> "ok", v |-> gen_return(OkList)]>>}
              /\ (FirstFailure <= N /\ est[1][FirstFailure] = "err")
                    <=> log[1] = <<ErrCall(errVal(FirstFailure))>>
              /\ (FirstFailure > N /\ Len(sres[1]) = N)
                    <=> log[1] = <<[ch |-> "ok", v |-> gen_return(OkList)]>>

\* Three yields: the first succeeds at once, the second from its timer, the
\* third fails from its timer; the run has failed with that failure after
\* feeding the generator the first two values.
C28_Witness ==
    /\ sc.kind = "run" /\ sc.arr = <<"of", "sleep", "fail">>
    /\ sres[1] = <<okVal(1), okVal(2)>> /\ fcalls = 3
    /\ log[1] = <<ErrCall(errVal(3))>>

(***************************************************************************)
(* C29  Result run: Result.run(gen) and Ok(val).run(gen) feed the          *)
(* unwrapped success value of each yielded Result back into the generator  *)
(* in order; they return the first yielded failure without resuming the    *)
(* generator past that yield, and otherwise the Result the generator       *)
(* returned.                                                               *)
(***************************************************************************)
YieldsResults == \A i \in DOMAIN sc.ys : sc.ys[i] # "undefined"
FailedYields == {i \in DOMAIN sc.ys : sc.ys[i] = "err"}
FirstFailed == IF FailedYields = {} THEN Len(sc.ys) + 1 ELSE Least(FailedYields)

C29_ResultRun ==
    (sc.kind = "Result.run" /\ sc.via \in {"static", "Ok"} /\ YieldsResults
        /\ out.st = "returned") =>
        /\ out.fed = [i \in 1..(FirstFailed - 1) |-> ErrVal(okVal(i))]
        /\ out.nexts = FirstFailed
        /\ out.res = IF FirstFailed <= Len(sc.ys) THEN Err(ErrVal(errVal(FirstFailed)))
                     ELSE Returned([i \in 1..Len(sc.ys) |-> ErrVal(okVal(i))])

\* Ok(val).run over a generator that yields a success, then a failure,
\* then a success: the failure came back after two calls of next.
C29_Witness ==
    /\ sc.kind = "Result.run" /\ sc.via = "Ok" /\ sc.ys = <<"ok", "err", "ok">>
    /\ out.st = "returned" /\ out.res = Err(ErrVal(errVal(2)))
    /\ out.fed = <<ErrVal(okVal(1))>> /\ out.nexts = 2

(***************************************************************************)
(* C30  Option invariant: for every Option reached from Some(x) and None   *)
(* by map, flatMap, match and flatMatch calls, isSome() implies that       *)
(* extract() is neither null nor undefined; in particular Some(null) and   *)
(* Some(undefined) are empty.                                              *)
(***************************************************************************)
C30_Present ==
    (sc.kind = "Option" /\ out # NoOut) =>
        /\ Option_isSome(out.opt) => ~Nullish(Option_extract(out.opt))
        /\ Some(Null) = None /\ Some(Undefined) = None

(***************************************************************************)
(* C31  Result.toOption as stated: for every success value v,              *)
(* Ok(v).toOption() is a present option holding v, and for every e,        *)
(* Err(e).toOption() is the empty option.                                  *)
(***************************************************************************)
C31_Present ==
    (sc.kind = "Result" /\ out # NoOut /\ out.last = "toOption") =>
        out.opt = IF out.res.type = "ok" THEN someConstructor(out.res.val) ELSE None

(***************************************************************************)
(* C31  Result.toOption, amended: for every success value v that is        *)
(* neither null nor undefined, Ok(v).toOption() is a present option        *)
(* holding v; Ok(null).toOption() and Ok(undefined).toOption() are the     *)
(* empty option, and so is Err(e).toOption() for every e.                  *)
(***************************************************************************)
C31_ToOption ==
    (sc.kind = "Result" /\ out # NoOut /\ out.last = "toOption") =>
        out.opt = IF out.res.type = "ok" /\ ~Nullish(out.res.val)
                  THEN someConstructor(out.res.val) ELSE None

\* Ok(1).map(() => null).toOption() has returned the empty option.
C31_Witness ==
    /\ sc.kind = "Result" /\ out # NoOut /\ out.last = "toOption" /\ out.n = 1
    /\ out.res = Ok(Null) /\ out.opt = None

C33_OfReject ==
    (sc.kind = "chain" /\ K = 0 /\ Root \in {"of", "reject"}) =>
        \A t \in Trig :
            how[t] = "extract" =>
                /\ ret[t] = "root"
                /\ log[t] = <<[ch |-> outCh(1), v |-> RootVal]>>
                /\ canc[t][1] = ucanc[t]

\* Future.reject(e, c) was extracted and c then called: c ran, and the
\* failure callback still has its one call.
C33_Witness ==
    /\ sc.kind = "chain" /\ K = 0 /\ Root = "reject"
    /\ how[1] = "extract" /\ ucanc[1] = 1 /\ canc[1][1] = 1
    /\ log[1] = <<[ch |-> "err", v |-> RootVal]>>

(***************************************************************************)
(* C34  Cancellation across a flatMap chain: for f.flatMap(g), invoking    *)
(* the cancel function that extract returned after f has succeeded and     *)
(* while the Future returned by g is pending invokes that inner Future's   *)
(* cancel function (its timer is cleared), so that neither callback passed *)
(* to extract is invoked afterwards.                                       *)
(***************************************************************************)
C34_Scope ==
    /\ sc.kind = "chain" /\ K = 1 /\ Succeeds(1)
    /\ sc.ops[1] = Op("flatMap", FALSE, "sleep")

C34_Step ==
    C34_Scope =>
        \A t \in Trig :
            /\ (ucanc'[t] > ucanc[t] /\ ipend[t] > 0) => ipend'[t] = 0
            /\ (ucanc[t] >= 1 /\ ipend[t] > 0 /\ log[t] = <<>>) => log'[t] = <<>>

C34_InnerCancelled == [][C34_Step]_vars

(***************************************************************************)
(* C35  Cancellation of a combinator: invoking the function that extract   *)
(* returned on the Future of all, allSafe, seq or seqSafe while an element *)
(* is pending invokes the cancel function of every pending element (its    *)
(* timer is cleared); for all and allSafe, whose elements are all started  *)
(* by the trigger, no callback of the combinator is invoked afterwards.    *)
(***************************************************************************)
C35_Step ==
    \A t \in Trig :
        /\ ucanc'[t] > ucanc[t] =>
              \A i \in Pending(t) :
                  canc'[t][i] = canc[t][i] + 1 /\ est'[t][i] = "cancelled"
        /\ (sc.kind \in {"all", "allSafe"} /\ ucanc[t] >= 1 /\ Pending(t) # {}) =>
              log'[t] = log[t]

C35_CombinatorCancels == [][C35_Step]_vars

(***************************************************************************)
(* C36  seq does not start the suffix: when element i is the first to fail *)
(* during a trigger of seq(futures), the action of every element at an     *)
(* index greater than i is never invoked during that trigger.              *)
(***************************************************************************)
C36_SuffixIdle ==
    (sc.kind = "seq" /\ Failing # {}) =>
        \A t \in Trig : \A i \in Idx : i > Least(Failing) => inv[t][i] = 0

(***************************************************************************)
(* C37  seq runs each element at most once: during one trigger of          *)
(* seq(futures) the action of every element, the one that fails included,  *)
(* is invoked at most once.                                                *)
(***************************************************************************)
C37_AtMostOnce ==
    sc.kind = "seq" => \A t \in Trig : \A i \in Idx : inv[t][i] <= 1

(***************************************************************************)
(* C38  Callbacks stay mutually exclusive when the consumer throws: for a  *)
(* Future built with flatMap or map whose source and inner Futures settle  *)
(* synchronously, if the success callback passed to extract throws while   *)
(* being invoked, the failure callback passed to the same extract call is  *)
(* not invoked.                                                            *)
(***************************************************************************)
C38_Scope ==
    /\ sc.kind = "chain" /\ ConsumerThrows /\ K >= 1 /\ NoThrow
    /\ Root \in {"of", "reject"}
    /\ \A j \in DOMAIN sc.ops :
          sc.ops[j].op \in {"map", "flatMap"} /\ sc.ops[j].inner \in {"of", "reject"}

C38_Exclusive ==
    C38_Scope =>
        \A t \in Trig :
            (how[t] = "extract" /\ Calls(t, "ok") # {}) => Calls(t, "err") = {}

====
